---- MODULE Spec2Model ----
(***************************************************************************)
(* Offline emergency-card cache (lib/offlineCache) and the emergency-card  *)
(* page that uses it, as a state machine.                                  *)
(*                                                                         *)
(* The host is a single-threaded event loop.  A call of one of the cache   *)
(* functions suspends at `await openDB()` and then at the store request    *)
(* it issued.  Continuations of settled promises (microtasks) run before   *)
(* any further host event, which MicrotasksDrained expresses.              *)
(*                                                                         *)
(* The object store is the durable set `entries` of records with in-line   *)
(* key 'key'.  Transactions on it run in creation order (txq).  A request  *)
(* whose success event fired is taken to have been committed.              *)
(***************************************************************************)
EXTENDS Integers, Sequences, FiniteSets, TLC

\* ---------------------------------------------------------------- bounds
MaxTime == 2
MaxCard == 2
MaxMinutes == 60
MaxHours == 24
MaxDays == 8
MaxTrialDays == 1

\* ------------------------------------------------------------- constants
DB_VERSION == 1
STORE_NAME == "emergency"

Codes == {"A", "B"}
Harness == {"h1"}
Racers == {"h1", "h2"}
Runs == {"r1"}
Overlapping == {"r1", "r2"}
RunIds == Runs \cup Overlapping
CallIds == Harness \cup Racers \cup RunIds

\* const cacheKey = `ice_card_${accessCode}`
CacheKey(code) == "ice_card_" \o code
Keys == {CacheKey(c) : c \in Codes}

\* EmergencyCardPublic, reduced to the fields the page and the cache read
HolderName(code) == "holder of " \o code
Cards == [id : 1..MaxCard, requires_pin : BOOLEAN, holder_name : {HolderName(c) : c \in Codes}]

\* what the API returns for an access code
CardsOf(code) == {d \in Cards : d.holder_name = HolderName(code)}

NULL == [isNull |-> TRUE]
NoCard == [id |-> 0, requires_pin |-> FALSE, holder_name |-> ""]

VARIABLES
    now,        \* Date.now()
    hasIDB,     \* typeof window !== 'undefined' && window.indexedDB
    dbVersion,  \* version of the durable database PolicyVaultOffline (0: not created)
    stores,     \* names of its object stores
    entries,    \* records of the object store 'emergency'
    dbPromise,  \* the module-level memo: "null", "pending", "resolved", "rejected"
    upgrading,  \* the open request ran onupgradeneeded and has not signalled yet
    waiters,    \* calls suspended at `await openDB()`, in order of suspension
    txq,        \* transactions with a pending request, in order of creation
    calls,      \* per call of a cache function: position, arguments, outcome
    hist,       \* per key: the last Put/Delete whose request succeeded (history)
    page,       \* the useState cells of EmergencyCardPage and its accessCode
    runs,       \* the running loadCard / handlePinSubmit invocations
    host,       \* whether `window` is defined, and navigator.onLine
    opens,      \* indexedDB.open requests this process has issued (history)
    util,       \* the last call of formatCacheTimestamp / useOnlineStatus
    auth        \* AuthProvider: its useState cells, local storage, role fetches

hostVars == <<host, opens, util, auth>>
cacheVars == <<now, hasIDB, dbVersion, stores, entries, dbPromise, upgrading,
               waiters, txq, calls, hist, host, opens, util, auth>>
pageVars == <<page, runs>>
offlineVars == <<now, hasIDB, dbVersion, stores, entries, dbPromise, upgrading,
                 waiters, txq, calls, hist, page, runs, host, opens, util>>
vars == <<now, hasIDB, dbVersion, stores, entries, dbPromise, upgrading,
          waiters, txq, calls, hist, page, runs, host, opens, util, auth>>

\* ------------------------------------------------------------ the store

\* type CachedData = { key, data, timestamp }
CachedData(key, data, timestamp) ==
    [key |-> key, data |-> data, timestamp |-> timestamp]

\* IDBObjectStore.put on a store created with { keyPath: 'key' }:
\* the record replaces the record that has the same key, if any (the store
\* keeps a structured clone, which for the JSON values of the API is equal)
StorePutKeepOld(S, entry) == S \cup {entry}
StorePutMerge(S, entry) ==
    {e \in S : e.key # entry.key} \cup
    {IF \E e \in S : e.key = entry.key
     THEN [entry EXCEPT !.data.requires_pin =
             (CHOOSE e \in S : e.key = entry.key).data.requires_pin]
     ELSE entry}
StorePut(S, entry) == {e \in S : e.key # entry.key} \cup {entry}

\* IDBObjectStore.get(key): the record with that key, or undefined
StoreGet(S, key) ==
    IF \E e \in S : e.key = key
    THEN CHOOSE e \in S : e.key = key
    ELSE NULL

\* IDBObjectStore.delete(key)
StoreDeleteClears(S, key) == {}
StoreDelete(S, key) == {e \in S : e.key # key}

\* request.onsuccess of getCachedEmergencyData
GetResultSwapped(result) ==
    IF result # NULL
    THEN [data |-> result.data, timestamp |-> 0]
    ELSE NULL
GetResult(result) ==
    IF result # NULL
    THEN [data |-> result.data, timestamp |-> result.timestamp]
    ELSE NULL

\* ------------------------------------------------------- calls and history

\* fresh: the entry's timestamp lies between the clock readings at the Put's
\* call and at its completion; changed: the Put replaced another payload;
\* kept: the process has restarted since
NoHist ==
    [op |-> "none", data |-> NoCard, ts |-> 0, fresh |-> FALSE, changed |-> FALSE,
     kept |-> FALSE]

\* seq: (a Get) no Put/Delete on its key was in flight when it was called or
\* was called since; memo: openDB returned the promise of an earlier call;
\* after: the Put/Delete calls on its key that were in flight when it was
\* called
IdleCall ==
    [pc |-> "idle", op |-> "none", key |-> "", data |-> NoCard, ts |-> 0,
     result |-> NULL, t0 |-> 0, seq |-> FALSE, memo |-> FALSE, after |-> {}]

InFlight(c) == calls[c].pc \in {"awaitOpen", "request"}
Settled(c) == calls[c].pc \in {"resolved", "rejected"}
Mutates(c) == calls[c].op \in {"put", "delete"}

\* Put/Delete calls on key k that have started and not settled
MutationsInFlight(k) == {c \in CallIds : InFlight(c) /\ Mutates(c) /\ calls[c].key = k}

\* what the caller holds once the returned promise settled
Resolved(c, result) ==
    [IdleCall EXCEPT !.pc = "resolved", !.op = calls[c].op, !.seq = calls[c].seq,
                     !.memo = calls[c].memo, !.after = calls[c].after,
                     !.result = result]
Rejected(c) == [IdleCall EXCEPT !.pc = "rejected", !.op = calls[c].op]

\* if (dbPromise) return dbPromise
MemoizedNever == FALSE
Memoized == dbPromise # "null"

\* openDB(), up to the promise it returns
OpenDBPromise ==
    IF Memoized THEN dbPromise
    ELSE IF ~hasIDB THEN "rejected"
    ELSE "pending"

\* whether this call of openDB() reaches indexedDB.open
OpensStore == ~Memoized /\ hasIDB

\* a cache function is called: it runs to `await openDB()`
Call(c, op, key, data) ==
    /\ dbPromise' = OpenDBPromise
    /\ opens' = IF OpensStore THEN opens + 1 ELSE opens
    /\ waiters' = Append(waiters, c)
    /\ calls' = [d \in CallIds |->
         IF d = c
         THEN [IdleCall EXCEPT !.pc = "awaitOpen", !.op = op, !.key = key,
                               !.data = data, !.t0 = now,
                               !.memo = Memoized,
                               !.after = MutationsInFlight(key) \ {c},
                               !.seq = (op = "get" /\ MutationsInFlight(key) = {})]
         ELSE IF op # "get" /\ InFlight(d) /\ calls[d].op = "get" /\ calls[d].key = key
         THEN [calls[d] EXCEPT !.seq = FALSE, !.after = @ \ {c}]
         ELSE [calls[d] EXCEPT !.after = @ \ {c}]]
    /\ UNCHANGED <<now, hasIDB, dbVersion, stores, entries, upgrading, txq, hist, host, util,
                   auth>>

\* the continuation of `await openDB()` when the promise rejected: the catch
\* block logs and the function returns (undefined, or null for a Get)
OpenCaughtRethrow(c) ==
    calls' = [calls EXCEPT ![c] = Rejected(c)]
OpenCaught(c) ==
    calls' = [calls EXCEPT ![c] = Resolved(c, NULL)]

\* the entry cacheEmergencyData builds
NewEntryBackdated(c) == CachedData(calls[c].key, calls[c].data, 0)
NewEntry(c) == CachedData(calls[c].key, calls[c].data, now)

\* the continuation of `await openDB()` when the promise resolved: the
\* executor of the returned promise creates the transaction and the request;
\* db.transaction or the store method may throw, which rejects the promise
OpenResolved(c, throws) ==
    IF throws
    THEN /\ calls' = [calls EXCEPT ![c] = Rejected(c)]
         /\ txq' = txq
    ELSE /\ calls' = [calls EXCEPT ![c].pc = "request",
                        ![c].ts = IF calls[c].op = "put" THEN NewEntry(c).timestamp ELSE 0]
         /\ txq' = Append(txq, c)

AfterOpen(c, throws) ==
    /\ waiters # <<>>
    /\ c = Head(waiters)
    /\ dbPromise \in {"resolved", "rejected"}
    /\ waiters' = Tail(waiters)
    /\ IF dbPromise = "rejected"
       THEN /\ ~throws
            /\ OpenCaught(c)
            /\ txq' = txq
       ELSE /\ (STORE_NAME \notin stores => throws)
            /\ OpenResolved(c, throws)
    /\ UNCHANGED <<page, runs, now, hasIDB, dbVersion, stores, entries, dbPromise, upgrading, hist>>
    /\ UNCHANGED hostVars

\* no continuation of an already settled promise is waiting to run
MicrotasksDrained ==
    /\ dbPromise \in {"resolved", "rejected"} => waiters = <<>>
    /\ \A r \in RunIds : runs[r].pc \in {"awaitPut", "awaitGet"} => ~Settled(r)

\* ------------------------------------------------------------- the page

NoTimestamp == <<>>
STORE_ERROR == "store request failed"
FetchErrors == {"", "Failed to fetch"}

\* the useState initial values
InitialPage(code) ==
    [accessCode |-> code, mounted |-> FALSE, loading |-> TRUE, error |-> "",
     requiresPin |-> FALSE, holderName |-> "", cardData |-> NULL, isOnline |-> TRUE,
     isUsingCache |-> FALSE, cacheTimestamp |-> NoTimestamp]

\* got: the card the API call returned (NULL until then, or if it failed);
\* err: the error loadCard caught, kept once its cache read has returned
IdleRun == [pc |-> "idle", kind |-> "none", code |-> "", err |-> "", got |-> NULL]

Active(r) == runs[r].pc # "idle"

Start(r, kind, code) ==
    [runs EXCEPT ![r] = [IdleRun EXCEPT !.pc = "fetch", !.kind = kind, !.code = code]]

\* which of the four screens the component returns
Screen(pg) ==
    IF pg.loading THEN "loading"
    ELSE IF pg.error # "" /\ ~pg.requiresPin THEN "error"
    ELSE IF pg.requiresPin /\ pg.cardData = NULL THEN "pin"
    ELSE "card"

\* the offline banner of the full card view
BannerShown(pg) == Screen(pg) = "card" /\ (~pg.isOnline \/ pg.isUsingCache)
BannerTitle(pg) == IF ~pg.isOnline THEN "You are offline" ELSE "Viewing cached data"
\* the timestamp whose age the banner's 'Last updated' line shows, if any
BannerLastUpdated(pg) ==
    IF BannerShown(pg) /\ pg.cacheTimestamp # NoTimestamp /\ pg.cacheTimestamp # <<0>>
    THEN pg.cacheTimestamp
    ELSE NoTimestamp

\* useEffect(() => { loadCard(); }, [accessCode]), up to the API call:
\* on mount, and whenever the route's code changes
LoadCard(r, code) ==
    /\ MicrotasksDrained
    /\ ~Active(r)
    /\ IF page.mounted THEN code # page.accessCode ELSE code = page.accessCode
    /\ page' = [page EXCEPT !.accessCode = code, !.mounted = TRUE,
                            !.loading = TRUE, !.error = ""]
    /\ runs' = Start(r, "load", code)
    /\ UNCHANGED cacheVars

\* handlePinSubmit, up to the API call; the form is on the PIN screen
HandlePinSubmit(r) ==
    /\ MicrotasksDrained
    /\ ~Active(r)
    /\ Screen(page) = "pin"
    /\ page' = [page EXCEPT !.loading = TRUE, !.error = ""]
    /\ runs' = Start(r, "pin", page.accessCode)
    /\ UNCHANGED cacheVars

\* the `finally` of both functions
Finally(pg) == [pg EXCEPT !.loading = FALSE]

\* iceApi.getPublic / iceApi.verifyPin resolved with data
FetchOkCurrentKey(r, data) ==
    /\ MicrotasksDrained
    /\ runs[r].pc = "fetch"
    /\ data \in CardsOf(runs[r].code)
    /\ IF runs[r].kind = "load" /\ data.requires_pin
       THEN /\ page' = Finally([page EXCEPT !.requiresPin = TRUE,
                                            !.holderName = data.holder_name])
            /\ runs' = [runs EXCEPT ![r] = IdleRun]
            /\ UNCHANGED cacheVars
       ELSE /\ page' = IF runs[r].kind = "load"
                       THEN [page EXCEPT !.cardData = data, !.isUsingCache = FALSE]
                       ELSE [page EXCEPT !.cardData = data, !.requiresPin = FALSE,
                                         !.isUsingCache = FALSE]
            /\ runs' = [runs EXCEPT ![r].pc = "awaitPut", ![r].got = data]
            /\ Call(r, "put", CacheKey(page.accessCode), data)
FetchOk(r, data) ==
    /\ MicrotasksDrained
    /\ runs[r].pc = "fetch"
    /\ data \in CardsOf(runs[r].code)
    /\ IF runs[r].kind = "load" /\ data.requires_pin
       THEN /\ page' = Finally([page EXCEPT !.requiresPin = TRUE,
                                            !.holderName = data.holder_name])
            /\ runs' = [runs EXCEPT ![r] = IdleRun]
            /\ UNCHANGED cacheVars
       ELSE /\ page' = IF runs[r].kind = "load"
                       THEN [page EXCEPT !.cardData = data, !.isUsingCache = FALSE]
                       ELSE [page EXCEPT !.cardData = data, !.requiresPin = FALSE,
                                         !.isUsingCache = FALSE]
            /\ runs' = [runs EXCEPT ![r].pc = "awaitPut", ![r].got = data]
            /\ Call(r, "put", CacheKey(runs[r].code), data)

\* err.message || fallback
MessageFallbackOnly(err, fallback) == fallback
Message(err, fallback) == IF err # "" THEN err ELSE fallback

\* the catch block of loadCard, up to the cache read
CatchLoadNoRead(r, err) ==
    /\ page' = Finally([page EXCEPT !.error = Message(err, "Emergency card not found")])
    /\ runs' = [runs EXCEPT ![r] = IdleRun]
    /\ UNCHANGED cacheVars
CatchLoad(r, err) ==
    /\ runs' = [runs EXCEPT ![r].pc = "awaitGet", ![r].err = err]
    /\ Call(r, "get", CacheKey(runs[r].code), NoCard)
    /\ UNCHANGED page

\* the catch block of handlePinSubmit
CatchPin(r, err) ==
    /\ page' = Finally([page EXCEPT !.error = Message(err, "Incorrect PIN")])
    /\ runs' = [runs EXCEPT ![r] = IdleRun]
    /\ UNCHANGED cacheVars

\* iceApi.getPublic / iceApi.verifyPin rejected
FetchFail(r, err) ==
    /\ MicrotasksDrained
    /\ runs[r].pc = "fetch"
    /\ IF runs[r].kind = "load" THEN CatchLoad(r, err) ELSE CatchPin(r, err)

\* `await cacheEmergencyData(cacheKey, data)` settled
PutSettled(r) ==
    /\ runs[r].pc = "awaitPut"
    /\ Settled(r)
    /\ IF calls[r].pc = "resolved"
       THEN /\ page' = Finally(page)
            /\ runs' = [runs EXCEPT ![r] = IdleRun]
            /\ UNCHANGED cacheVars
       ELSE IF runs[r].kind = "load"
       THEN CatchLoad(r, STORE_ERROR)
       ELSE CatchPin(r, STORE_ERROR)

\* a cached entry loadCard accepts
UsableInverted(cached) == cached # NULL /\ cached.data.requires_pin
Usable(cached) == cached # NULL /\ ~cached.data.requires_pin

\* `await getCachedEmergencyData(cacheKey)` settled, to the end of loadCard
GetSettled(r) ==
    /\ runs[r].pc = "awaitGet"
    /\ Settled(r)
    /\ page' = Finally(
         IF calls[r].pc = "resolved" /\ Usable(calls[r].result)
         THEN [page EXCEPT !.cardData = calls[r].result.data,
                           !.cacheTimestamp = <<calls[r].result.timestamp>>,
                           !.isUsingCache = TRUE,
                           !.error = ""]
         ELSE [page EXCEPT !.error = Message(runs[r].err, "Emergency card not found")])
    /\ runs' = [runs EXCEPT ![r] = [IdleRun EXCEPT !.err = runs[r].err]]
    /\ UNCHANGED cacheVars

\* the 'online' / 'offline' listeners
NetworkEvent(online) ==
    /\ MicrotasksDrained
    /\ page.mounted
    /\ page.isOnline # online
    /\ page' = [page EXCEPT !.isOnline = online]
    /\ UNCHANGED <<runs, now, hasIDB, dbVersion, stores, entries, dbPromise, upgrading,
                   waiters, txq, calls, hist>>
    /\ UNCHANGED hostVars

\* ------------------------------------------------------- the open request

\* request.onupgradeneeded: the database is older than DB_VERSION
OpenUpgradeNoStore ==
    /\ MicrotasksDrained
    /\ dbPromise = "pending"
    /\ dbVersion < DB_VERSION
    /\ dbVersion' = DB_VERSION
    /\ stores' = stores
    /\ upgrading' = TRUE
    /\ UNCHANGED <<page, runs, now, hasIDB, entries, dbPromise, waiters, txq, calls, hist>>
    /\ UNCHANGED hostVars
OpenUpgradeNeeded ==
    /\ MicrotasksDrained
    /\ dbPromise = "pending"
    /\ dbVersion < DB_VERSION
    /\ dbVersion' = DB_VERSION
    /\ stores' = IF STORE_NAME \in stores THEN stores ELSE stores \cup {STORE_NAME}
    /\ upgrading' = TRUE
    /\ UNCHANGED <<page, runs, now, hasIDB, entries, dbPromise, waiters, txq, calls, hist>>
    /\ UNCHANGED hostVars

\* request.onsuccess
OpenSuccess ==
    /\ MicrotasksDrained
    /\ dbPromise = "pending"
    /\ dbVersion = DB_VERSION
    /\ dbPromise' = "resolved"
    /\ upgrading' = FALSE
    /\ UNCHANGED <<page, runs, now, hasIDB, dbVersion, stores, entries, waiters, txq, calls, hist>>
    /\ UNCHANGED hostVars

\* request.onerror; an upgrade that was under way is rolled back by the store
OpenError ==
    /\ MicrotasksDrained
    /\ dbPromise = "pending"
    /\ dbPromise' = "rejected"
    /\ upgrading' = FALSE
    /\ IF upgrading
       THEN dbVersion' = 0 /\ stores' = {} /\ entries' = {}
       ELSE UNCHANGED <<dbVersion, stores, entries>>
    /\ UNCHANGED <<page, runs, now, hasIDB, waiters, txq, calls, hist>>
    /\ UNCHANGED hostVars

\* ------------------------------------------------------ the store requests

\* a transaction starts when every transaction created before it that
\* overlaps it has finished; read-only transactions do not overlap each other
CanRunAnyOrder(c) == \E i \in 1..Len(txq) : txq[i] = c
CanRun(c) ==
    \E i \in 1..Len(txq) :
       /\ txq[i] = c
       /\ \A j \in 1..(i - 1) : calls[c].op = "get" /\ calls[txq[j]].op = "get"

Without(q, c) == SelectSeq(q, LAMBDA x : x # c)

\* the entry a Put handed to store.put
Entry(c) == CachedData(calls[c].key, calls[c].data, calls[c].ts)

HistAfter(c) ==
    [op |-> calls[c].op,
     data |-> calls[c].data,
     ts |-> calls[c].ts,
     fresh |-> (calls[c].op = "put" /\ calls[c].t0 <= calls[c].ts /\ calls[c].ts <= now),
     changed |-> (calls[c].op = "put" /\ hist[calls[c].key].op = "put"
                  /\ hist[calls[c].key].data # calls[c].data),
     kept |-> FALSE]

\* request.onsuccess of the three functions: resolve
RequestSuccess(c) ==
    /\ entries' = CASE calls[c].op = "put" -> StorePut(entries, Entry(c))
                    [] calls[c].op = "delete" -> StoreDelete(entries, calls[c].key)
                    [] OTHER -> entries
    /\ hist' = IF Mutates(c) THEN [hist EXCEPT ![calls[c].key] = HistAfter(c)] ELSE hist
    /\ calls' = [calls EXCEPT ![c] =
         Resolved(c, IF calls[c].op = "get"
                     THEN GetResult(StoreGet(entries, calls[c].key))
                     ELSE NULL)]

\* request.onerror of the three functions: reject(request.error)
RequestErrorUnhandled(c) ==
    /\ calls' = calls
    /\ UNCHANGED <<entries, hist>>
RequestError(c) ==
    /\ calls' = [calls EXCEPT ![c] = Rejected(c)]
    /\ UNCHANGED <<entries, hist>>

StoreSignal(c, ok) ==
    /\ MicrotasksDrained
    /\ CanRun(c)
    /\ txq' = Without(txq, c)
    /\ IF ok THEN RequestSuccess(c) ELSE RequestError(c)
    /\ UNCHANGED <<page, runs, now, hasIDB, dbVersion, stores, dbPromise, upgrading, waiters>>
    /\ UNCHANGED hostVars

\* ------------------------------------------------------- the auth provider

\* null (a state cell) / no such item (local storage); a value v is <<v>>
NoItem == <<>>

Tokens == {"t1"}
Fetchers == {"f1", "f2"}

\* the JSON of /auth/me; an absent or empty field is ""
MeResponses ==
    [role : {"", "agent"}, plan : {"", "pro"}, trial_active : BOOLEAN,
     trial_days_left : 0..MaxTrialDays]

\* the useState initial values, over the local storage the browser has;
\* fetches: per fetchRole invocation, the await it is suspended at;
\* loggedOut: logout has run and no login since (history)
InitialAuth(pv_token, pv_role, pv_plan) ==
    [mounted |-> FALSE, token |-> NoItem, role |-> NoItem, plan |-> NoItem,
     trialActive |-> FALSE, trialDaysLeft |-> 0,
     pv_token |-> pv_token, pv_role |-> pv_role, pv_plan |-> pv_plan,
     fetches |-> [f \in Fetchers |-> "idle"], loggedOut |-> FALSE]

\* value || fallback
OrElse(value, fallback) == IF value # "" THEN value ELSE fallback

\* fetchRole(t), up to `await fetch(...)`
FetchRole(a, f) == [a EXCEPT !.fetches[f] = "fetch"]

\* the effect that runs once on mount
AuthMount(f) ==
    /\ ~auth.mounted
    /\ auth' =
         IF auth.pv_token # NoItem
         THEN FetchRole([auth EXCEPT !.mounted = TRUE,
                                     !.token = auth.pv_token,
                                     !.role = IF auth.pv_role # NoItem
                                              THEN auth.pv_role ELSE @,
                                     !.plan = IF auth.pv_plan # NoItem
                                              THEN auth.pv_plan ELSE @], f)
         ELSE [auth EXCEPT !.mounted = TRUE]
    /\ UNCHANGED offlineVars

login(t, f) ==
    /\ auth.mounted
    /\ auth.fetches[f] = "idle"
    /\ auth' = FetchRole([auth EXCEPT !.pv_token = <<t>>, !.token = <<t>>,
                                      !.loggedOut = FALSE], f)
    /\ UNCHANGED offlineVars

logout ==
    /\ auth.mounted
    /\ auth' = [auth EXCEPT !.pv_token = NoItem, !.pv_role = NoItem, !.pv_plan = NoItem,
                            !.token = NoItem, !.role = NoItem, !.plan = NoItem,
                            !.trialActive = FALSE, !.trialDaysLeft = 0,
                            !.loggedOut = TRUE]
    /\ UNCHANGED offlineVars

refreshPlan(f) ==
    /\ auth.mounted
    /\ auth.token # NoItem
    /\ auth.fetches[f] = "idle"
    /\ auth' = FetchRole(auth, f)
    /\ UNCHANGED offlineVars

\* `await fetch(...)` resolved with res.ok: on to `await res.json()`
MeResponded(f) ==
    /\ auth.fetches[f] = "fetch"
    /\ auth' = [auth EXCEPT !.fetches[f] = "json"]
    /\ UNCHANGED offlineVars

\* `await res.json()` resolved with data: the rest of the if block
MeParsed(f, data) ==
    /\ auth.fetches[f] = "json"
    /\ auth' = [auth EXCEPT !.fetches[f] = "idle",
                            !.role = <<OrElse(data.role, "individual")>>,
                            !.plan = <<OrElse(data.plan, "free")>>,
                            !.trialActive = data.trial_active,
                            !.trialDaysLeft = data.trial_days_left,
                            !.pv_role = <<OrElse(data.role, "individual")>>,
                            !.pv_plan = <<OrElse(data.plan, "free")>>]
    /\ UNCHANGED offlineVars

\* fetch rejected, res.ok false, or res.json() rejected: nothing is set
MeFailed(f) ==
    /\ auth.fetches[f] \in {"fetch", "json"}
    /\ auth' = [auth EXCEPT !.fetches[f] = "idle"]
    /\ UNCHANGED offlineVars

\* ------------------------------------------------------------ environment

\* no utility function has been called yet; nth tells a call from the one
\* before it
NoUtil == [fn |-> "none", arg |-> 0, at |-> 0, text |-> "", flag |-> FALSE, nth |-> 0]

\* ---------------------------------------------------------- the utilities

MS_PER_MINUTE == 60000
MS_PER_HOUR == 3600000
MS_PER_DAY == 86400000

\* date.toLocaleDateString(): the calendar day the timestamp falls on
LocaleDateString(timestamp) == "date " \o ToString(timestamp \div MS_PER_DAY)

\* `${n} unit${n === 1 ? '' : 's'} ago`
AgoAlwaysPlural(n, unit) == ToString(n) \o " " \o unit \o "s" \o " ago"
Ago(n, unit) == ToString(n) \o " " \o unit \o (IF n = 1 THEN "" ELSE "s") \o " ago"

\* formatCacheTimestamp(timestamp), with `new Date()` read from the clock
formatCacheTimestampNoJustNow(timestamp) ==
    LET diffMs == now - timestamp
        diffMins == diffMs \div MS_PER_MINUTE
        diffHours == diffMs \div MS_PER_HOUR
        diffDays == diffMs \div MS_PER_DAY
    IN IF diffMins < 60 THEN Ago(diffMins, "minute")
       ELSE IF diffHours < 24 THEN Ago(diffHours, "hour")
       ELSE IF diffDays < 7 THEN Ago(diffDays, "day")
       ELSE LocaleDateString(timestamp)
formatCacheTimestampRounded(timestamp) ==
    LET diffMs == now - timestamp
        diffMins == (diffMs + 30000) \div MS_PER_MINUTE
        diffHours == (diffMs + 1800000) \div MS_PER_HOUR
        diffDays == (diffMs + 43200000) \div MS_PER_DAY
    IN IF diffMins < 1 THEN "Just now"
       ELSE IF diffMins < 60 THEN Ago(diffMins, "minute")
       ELSE IF diffHours < 24 THEN Ago(diffHours, "hour")
       ELSE IF diffDays < 7 THEN Ago(diffDays, "day")
       ELSE LocaleDateString(timestamp)
formatCacheTimestamp(timestamp) ==
    LET diffMs == now - timestamp
        diffMins == diffMs \div MS_PER_MINUTE
        diffHours == diffMs \div MS_PER_HOUR
        diffDays == diffMs \div MS_PER_DAY
    IN IF diffMins < 1 THEN "Just now"
       ELSE IF diffMins < 60 THEN Ago(diffMins, "minute")
       ELSE IF diffHours < 24 THEN Ago(diffHours, "hour")
       ELSE IF diffDays < 7 THEN Ago(diffDays, "day")
       ELSE LocaleDateString(timestamp)

\* useOnlineStatus()
useOnlineStatusCached ==
    IF util.fn = "useOnlineStatus" THEN util.flag
    ELSE IF ~host.window THEN TRUE
    ELSE host.onLine
useOnlineStatus ==
    IF ~host.window THEN TRUE
    ELSE host.onLine

\* elapsed times around every change of the text: a whole number of
\* minutes, hours or days, one millisecond less, and half a minute more;
\* and as far into the future (negative)
Offsets == {-1, 0, 30000}
Elapsed ==
    {n * MS_PER_MINUTE + d : n \in (0 - MaxMinutes)..MaxMinutes, d \in Offsets} \cup
    {n * MS_PER_HOUR + d : n \in (0 - MaxHours)..MaxHours, d \in Offsets} \cup
    {n * MS_PER_DAY + d : n \in (0 - MaxDays)..MaxDays, d \in Offsets}

\* the clock reading at which the utilities are exercised
UtilClock == (MaxDays + 2) * MS_PER_DAY

FormatCall(timestamp) ==
    /\ util' = [fn |-> "formatCacheTimestamp", arg |-> timestamp, at |-> now,
                text |-> formatCacheTimestamp(timestamp), flag |-> FALSE,
                nth |-> 1 - util.nth]
    /\ UNCHANGED <<now, hasIDB, dbVersion, stores, entries, dbPromise, upgrading,
                   waiters, txq, calls, hist, page, runs, host, opens, auth>>

OnlineCall ==
    /\ util' = [fn |-> "useOnlineStatus", arg |-> 0, at |-> now, text |-> "",
                flag |-> useOnlineStatus, nth |-> 1 - util.nth]
    /\ UNCHANGED <<now, hasIDB, dbVersion, stores, entries, dbPromise, upgrading,
                   waiters, txq, calls, hist, page, runs, host, opens, auth>>

\* the browser goes online / offline
NavigatorEvent(online) ==
    /\ host.window
    /\ host.onLine # online
    /\ host' = [host EXCEPT !.onLine = online]
    /\ UNCHANGED <<now, hasIDB, dbVersion, stores, entries, dbPromise, upgrading,
                   waiters, txq, calls, hist, page, runs, opens, util, auth>>

Tick ==
    /\ now < MaxTime
    /\ now' = now + 1
    /\ UNCHANGED <<page, runs, hasIDB, dbVersion, stores, entries, dbPromise, upgrading,
                   waiters, txq, calls, hist>>
    /\ UNCHANGED hostVars

\* the page is closed and loaded again: the module is evaluated anew and
\* every pending promise is gone with the old process; the database stays,
\* less what transactions that had not completed were doing to it
RestartVolatile ==
    /\ dbPromise # "null"
    /\ dbPromise' = "null"
    /\ opens' = 0
    /\ upgrading' = FALSE
    /\ waiters' = <<>>
    /\ txq' = <<>>
    /\ calls' = [c \in CallIds |-> IdleCall]
    /\ runs' = [r \in RunIds |-> IdleRun]
    /\ page' = InitialPage(page.accessCode)
    /\ util' = NoUtil
    /\ dbVersion' = 0 /\ stores' = {} /\ entries' = {}
    /\ hist' = [k \in Keys |-> [hist[k] EXCEPT !.kept = (hist[k].op = "put")]]
    /\ UNCHANGED <<now, hasIDB, host, auth>>
Restart ==
    /\ dbPromise # "null"
    /\ dbPromise' = "null"
    /\ opens' = 0
    /\ upgrading' = FALSE
    /\ waiters' = <<>>
    /\ txq' = <<>>
    /\ calls' = [c \in CallIds |-> IdleCall]
    /\ runs' = [r \in RunIds |-> IdleRun]
    /\ page' = InitialPage(page.accessCode)
    /\ util' = NoUtil
    /\ IF upgrading
       THEN dbVersion' = 0 /\ stores' = {} /\ entries' = {}
       ELSE UNCHANGED <<dbVersion, stores, entries>>
    /\ hist' = [k \in Keys |-> [hist[k] EXCEPT !.kept = (hist[k].op = "put")]]
    /\ UNCHANGED <<now, hasIDB, host, auth>>

\* any caller of the three exported functions
HarnessCall(c, op, key, data) ==
    /\ ~InFlight(c)
    /\ (op # "put" => data = NoCard)
    /\ Call(c, op, key, data)
    /\ UNCHANGED pageVars

Init ==
    /\ now = 1
    /\ hasIDB \in BOOLEAN
    /\ dbVersion = 0
    /\ stores = {}
    /\ entries = {}
    /\ dbPromise = "null"
    /\ upgrading = FALSE
    /\ waiters = <<>>
    /\ txq = <<>>
    /\ calls = [c \in CallIds |-> IdleCall]
    /\ hist = [k \in Keys |-> NoHist]
    /\ \E code \in Codes : page = InitialPage(code)
    /\ runs = [r \in RunIds |-> IdleRun]
    /\ host = [window |-> TRUE, onLine |-> TRUE]
    /\ opens = 0
    /\ util = NoUtil
    /\ auth = InitialAuth(NoItem, NoItem, NoItem)

Next ==
    \/ \E c \in Harness, op \in {"put", "get", "delete"}, k \in Keys,
          d \in CardsOf("A") \cup {NoCard} :
          HarnessCall(c, op, k, d)
    \/ \E c \in CallIds, throws \in BOOLEAN : AfterOpen(c, throws)
    \/ OpenUpgradeNeeded
    \/ OpenSuccess
    \/ OpenError
    \/ \E c \in CallIds, ok \in BOOLEAN : StoreSignal(c, ok)
    \/ Tick

Spec == Init /\ [][Next]_vars

PageNext ==
    \/ \E r \in Runs, code \in Codes : LoadCard(r, code)
    \/ \E r \in Runs : HandlePinSubmit(r)
    \/ \E r \in Runs, data \in Cards : FetchOk(r, data)
    \/ \E r \in Runs, err \in FetchErrors : FetchFail(r, err)
    \/ \E r \in Runs : PutSettled(r)
    \/ \E r \in Runs : GetSettled(r)
    \/ \E online \in BOOLEAN : NetworkEvent(online)
    \/ \E c \in CallIds, throws \in BOOLEAN : AfterOpen(c, throws)
    \/ OpenUpgradeNeeded
    \/ OpenSuccess
    \/ OpenError
    \/ \E c \in CallIds, ok \in BOOLEAN : StoreSignal(c, ok)
    \/ Tick

PageSpec == Init /\ [][PageNext]_vars

\* the two utilities, called at any elapsed time, with or without a browser
UtilInit ==
    /\ now = UtilClock
    /\ host \in [window : BOOLEAN, onLine : BOOLEAN]
    /\ hasIDB = host.window
    /\ dbVersion = 0
    /\ stores = {}
    /\ entries = {}
    /\ dbPromise = "null"
    /\ upgrading = FALSE
    /\ waiters = <<>>
    /\ txq = <<>>
    /\ calls = [c \in CallIds |-> IdleCall]
    /\ hist = [k \in Keys |-> NoHist]
    /\ \E code \in Codes : page = InitialPage(code)
    /\ runs = [r \in RunIds |-> IdleRun]
    /\ opens = 0
    /\ util = NoUtil
    /\ auth = InitialAuth(NoItem, NoItem, NoItem)

UtilNext ==
    \/ \E e \in Elapsed : FormatCall(now - e)
    \/ OnlineCall
    \/ \E online \in BOOLEAN : NavigatorEvent(online)

UtilSpec == UtilInit /\ [][UtilNext]_vars

\* the auth provider, on a browser with or without a stored session
AuthInit ==
    /\ now = 1
    /\ hasIDB = TRUE
    /\ dbVersion = 0
    /\ stores = {}
    /\ entries = {}
    /\ dbPromise = "null"
    /\ upgrading = FALSE
    /\ waiters = <<>>
    /\ txq = <<>>
    /\ calls = [c \in CallIds |-> IdleCall]
    /\ hist = [k \in Keys |-> NoHist]
    /\ \E code \in Codes : page = InitialPage(code)
    /\ runs = [r \in RunIds |-> IdleRun]
    /\ host = [window |-> TRUE, onLine |-> TRUE]
    /\ opens = 0
    /\ util = NoUtil
    /\ \E t \in {NoItem} \cup {<<x>> : x \in Tokens},
          r \in {NoItem, <<"agent">>}, p \in {NoItem, <<"pro">>} :
          auth = InitialAuth(t, r, p)

AuthNext ==
    \/ \E f \in Fetchers : AuthMount(f)
    \/ \E f \in Fetchers : refreshPlan(f)
    \/ \E t \in Tokens, f \in Fetchers : login(t, f)
    \/ logout
    \/ \E f \in Fetchers : MeResponded(f)
    \/ \E f \in Fetchers, data \in MeResponses : MeParsed(f, data)
    \/ \E f \in Fetchers : MeFailed(f)

AuthSpec == AuthInit /\ [][AuthNext]_vars

\* the cache functions across restarts of the process
RestartNext ==
    \/ \E c \in Harness, op \in {"put", "get", "delete"}, k \in {CacheKey("A")},
          d \in CardsOf("A") \cup {NoCard} :
          HarnessCall(c, op, k, d)
    \/ \E c \in CallIds, throws \in BOOLEAN : AfterOpen(c, throws)
    \/ OpenUpgradeNeeded
    \/ OpenSuccess
    \/ OpenError
    \/ \E c \in CallIds, ok \in BOOLEAN : StoreSignal(c, ok)
    \/ Tick
    \/ Restart

RestartSpec == Init /\ [][RestartNext]_vars

\* two callers whose calls overlap, on one key
RaceNext ==
    \/ \E c \in Racers, op \in {"put", "get", "delete"}, k \in {CacheKey("A")},
          d \in CardsOf("A") \cup {NoCard} :
          HarnessCall(c, op, k, d)
    \/ \E c \in CallIds, throws \in BOOLEAN : AfterOpen(c, throws)
    \/ OpenUpgradeNeeded
    \/ OpenSuccess
    \/ OpenError
    \/ \E c \in CallIds, ok \in BOOLEAN : StoreSignal(c, ok)
    \/ Tick

RaceSpec == Init /\ [][RaceNext]_vars

\* the store signals: every open request and every store request gets its
\* success or error event, and continuations of settled promises run
FairSpec ==
    /\ Spec
    /\ WF_vars(\E c \in CallIds, throws \in BOOLEAN : AfterOpen(c, throws))
    /\ WF_vars(OpenUpgradeNeeded \/ OpenSuccess \/ OpenError)
    /\ WF_vars(\E c \in CallIds, ok \in BOOLEAN : StoreSignal(c, ok))

\* the page when the route's code changes while a load or a PIN check is
\* still running: two invocations overlap
OverlapNext ==
    \/ \E r \in Overlapping, code \in Codes : LoadCard(r, code)
    \/ \E r \in Overlapping : HandlePinSubmit(r)
    \/ \E r \in Overlapping, data \in {d \in Cards : d.id = 1} : FetchOk(r, data)
    \/ \E r \in Overlapping : FetchFail(r, "Failed to fetch")
    \/ \E r \in Overlapping : PutSettled(r)
    \/ \E r \in Overlapping : GetSettled(r)
    \/ \E c \in CallIds, throws \in BOOLEAN : AfterOpen(c, throws)
    \/ OpenUpgradeNeeded
    \/ OpenSuccess
    \/ OpenError
    \/ \E c \in CallIds, ok \in BOOLEAN : StoreSignal(c, ok)

OverlapSpec == Init /\ [][OverlapNext]_vars

\* the cache lets the store and the network take their time: only the
\* continuations of settled promises are certain to run
FairPageSpec ==
    /\ PageSpec
    /\ WF_vars(\E c \in CallIds, throws \in BOOLEAN : AfterOpen(c, throws))
    /\ WF_vars(\E r \in Runs : PutSettled(r))
    /\ WF_vars(\E r \in Runs : GetSettled(r))

\* ------------------------------------------------------------- properties

\* the step in which the promise of a Get call c resolves
GetResolves(c) ==
    /\ InFlight(c)
    /\ calls[c].op = "get"
    /\ calls'[c].pc = "resolved"

\* the step in which the promise of call c settles
Settles(c) == InFlight(c) /\ calls'[c].pc \in {"resolved", "rejected"}

\* what a Get returns for the entry the history holds for key k
Pair(k) == [data |-> hist[k].data, timestamp |-> hist[k].ts]

\* C1: a Get(k) that follows a completed Put(k, p), with no Put/Delete on k
\* in between, returns exactly p, and a capturedAt that is not before the
\* clock reading at the start of the Put and not after the one at the Get's
\* return.
C1_RoundTrip ==
    [][\A c \in CallIds :
         (GetResolves(c) /\ calls[c].seq /\ hist[calls[c].key].op = "put")
         => /\ calls'[c].result = Pair(calls[c].key)
            /\ hist[calls[c].key].fresh
            /\ calls'[c].result.timestamp <= now']_vars

C1_Witness ==
    \E c \in Harness, k \in Keys :
       /\ calls[c].pc = "resolved" /\ calls[c].op = "get" /\ calls[c].seq
       /\ hist[k].op = "put"
       /\ calls[c].result = Pair(k)
       /\ now > 1

\* C2: the promise returned by cacheEmergencyData / clearCachedEmergencyData
\* never rejects.
C2_PutDeleteNeverReject ==
    \A c \in CallIds : calls[c].op \in {"put", "delete"} => calls[c].pc # "rejected"

\* C3: the promise returned by getCachedEmergencyData never rejects.
C3_GetNeverRejects ==
    \A c \in CallIds : calls[c].op = "get" => calls[c].pc # "rejected"

\* the step in which invocation r of loadCard / handlePinSubmit returns
Returns(r) == Active(r) /\ ~Active(r)'

\* C4: when the live fetch gave a card that needs no PIN (or verifyPin gave
\* the card), the invocation ends with that card displayed, isUsingCache
\* false and no error message, whatever became of the cache write.
C4_CacheFailureNeverFailsFetch ==
    [][\A r \in Runs :
         (Returns(r) /\ runs[r].got # NULL)
         => /\ page'.cardData = runs[r].got
            /\ ~page'.isUsingCache
            /\ page'.error = ""
            /\ Screen(page') = "card"]_vars

\* C5: once the live fetch has succeeded and the cache write is under way,
\* the page leaves the loading state, also when the store never signals.
C5_WriteNeverBlocks ==
    \A r \in Runs :
       (runs[r].kind = "load" /\ runs[r].pc = "awaitPut") ~> (~page.loading)

\* C6: after Put(k, p1) and then Put(k, p2) completed, a Get(k) returns the
\* payload p2 whole: not p1, and no mixture of the two.
C6_LastWriteWins ==
    [][\A c \in CallIds :
         (GetResolves(c) /\ calls[c].seq /\ hist[calls[c].key].changed)
         => /\ calls'[c].result # NULL
            /\ calls'[c].result.data = hist[calls[c].key].data]_vars

C6_Witness ==
    \E c \in Harness, k \in Keys :
       /\ calls[c].pc = "resolved" /\ calls[c].op = "get" /\ calls[c].seq
       /\ hist[k].changed
       /\ calls[c].result # NULL
       /\ calls[c].result.data = hist[k].data

\* C7: a Get(k) on a key that was never written, or whose last completed
\* Put/Delete is a Delete, returns absent and raises no error.
C7_AbsentNotError ==
    [][\A c \in CallIds :
         (Settles(c) /\ calls[c].op = "get" /\ calls[c].seq
            /\ hist[calls[c].key].op \in {"none", "delete"})
         => /\ calls'[c].pc = "resolved"
            /\ calls'[c].result = NULL]_vars

\* C8: without durable local storage no call ever rejects, every Get returns
\* absent and nothing is stored, for every call and not only the first.
C8_StoreUnavailable ==
    ~hasIDB =>
       /\ \A c \in CallIds :
            /\ calls[c].pc # "rejected"
            /\ calls[c].pc # "request"
            /\ calls[c].pc = "resolved" => calls[c].result = NULL
       /\ entries = {}

C8_Witness ==
    /\ ~hasIDB
    /\ \E c \in Harness : calls[c].pc = "resolved" /\ calls[c].op = "get" /\ calls[c].memo
    /\ dbPromise = "rejected"

\* the step in which loadCard's cache read settles and the function returns
FallbackReturns(r) ==
    /\ runs[r].kind = "load"
    /\ runs[r].pc = "awaitGet"
    /\ runs[r].got = NULL
    /\ Returns(r)

\* C9: when the last completed Put for "ice_card_" + c stored, at time T, a
\* card that needs no PIN, a loadCard for c whose live fetch fails and whose
\* cache read is served ends with that card in cardData, isUsingCache true,
\* cacheTimestamp T and no error: the card view with the banner dated T.
C9_OfflineFallback ==
    [][\A r \in Runs :
         (/\ FallbackReturns(r)
          /\ calls[r].pc = "resolved" /\ calls[r].seq
          /\ hist[CacheKey(runs[r].code)].op = "put"
          /\ ~hist[CacheKey(runs[r].code)].data.requires_pin)
         => /\ page'.cardData = hist[CacheKey(runs[r].code)].data
            /\ page'.isUsingCache
            /\ page'.cacheTimestamp = <<hist[CacheKey(runs[r].code)].ts>>
            /\ page'.error = ""
            /\ Screen(page') = "card"
            /\ BannerShown(page')
            /\ BannerLastUpdated(page') = <<hist[CacheKey(runs[r].code)].ts>>]_vars

C9_Witness ==
    /\ Screen(page) = "card"
    /\ page.isUsingCache
    /\ hist[CacheKey(page.accessCode)].op = "put"
    /\ page.cardData = hist[CacheKey(page.accessCode)].data
    /\ BannerLastUpdated(page) = <<hist[CacheKey(page.accessCode)].ts>>
    /\ \E r \in Runs : ~Active(r) /\ runs[r].err = "Failed to fetch"

\* C10: the store never holds two entries with one key, and the payload and
\* capturedAt a Get returns are those one single Put wrote together.
C10_OneEntryPerKey ==
    [][/\ \A e1, e2 \in entries' : e1.key = e2.key => e1 = e2
       /\ \A c \in CallIds :
            (GetResolves(c) /\ calls'[c].result # NULL)
            => /\ hist[calls[c].key].op = "put"
               /\ calls'[c].result = Pair(calls[c].key)]_vars

C10_Witness ==
    /\ Cardinality(entries) = Cardinality(Keys)
    /\ \E k \in Keys : hist[k].changed
    /\ \E c \in Harness : calls[c].pc = "resolved" /\ calls[c].op = "get"
                          /\ calls[c].result # NULL

\* the step in which the store request of the Put/Delete call c succeeds
Writes(c, k) ==
    /\ calls[c].pc = "request"
    /\ Mutates(c)
    /\ calls[c].key = k
    /\ calls'[c].pc = "resolved"

\* C11: the capturedAt of a stored entry is the clock reading taken during
\* the Put that wrote its payload (not before the Put was called, not after
\* it completed); no step other than a completing Put on the same key
\* changes it, and a Put that replaces an entry never decreases it.
C11_CapturedAtIsPutClock ==
    [][\A k \in Keys :
         LET old == StoreGet(entries, k)
             new == StoreGet(entries', k)
         IN /\ \A c \in CallIds :
                 (Writes(c, k) /\ calls[c].op = "put")
                 => /\ new = CachedData(k, calls[c].data, new.timestamp)
                    /\ calls[c].t0 <= new.timestamp
                    /\ new.timestamp <= now'
            /\ (old # NULL /\ new # NULL /\ new.timestamp # old.timestamp)
               => \E c \in CallIds : Writes(c, k) /\ calls[c].op = "put"
            /\ (old # NULL /\ new # NULL) => old.timestamp <= new.timestamp]_vars

C11_Witness ==
    \E e \in entries :
       /\ e.timestamp > 1
       /\ hist[e.key].changed
       /\ hist[e.key].ts = e.timestamp

\* C12: the entry of a key k (its presence, payload and capturedAt) changes
\* only in the step in which a Put or Delete on k itself completes: not by
\* the passing of time, not by a Put or Delete on another key, not by a Get.
C12_NoCrossKeyEffect ==
    [][\A k \in Keys :
         StoreGet(entries', k) # StoreGet(entries, k)
         => \E c \in CallIds : Writes(c, k)]_vars

C12_Witness ==
    \E k, j \in Keys :
       /\ k # j
       /\ hist[j].op = "delete"
       /\ hist[k].op = "put"
       /\ StoreGet(entries, k) = CachedData(k, hist[k].data, hist[k].ts)
       /\ hist[k].ts < now
       /\ \E c \in Harness : calls[c].pc = "resolved" /\ calls[c].op = "get"
                             /\ calls[c].result = Pair(k)

\* C13: a Delete(k) on a key that has no entry completes without error and
\* leaves the store as it was (so a second Delete adds nothing to a first).
C13_DeleteAbsentCompletes ==
    [][\A c \in CallIds :
         (Settles(c) /\ calls[c].op = "delete"
            /\ StoreGet(entries, calls[c].key) = NULL)
         => /\ calls'[c].pc = "resolved"
            /\ entries' = entries]_vars

\* the step in which the process restarts
Restarts == dbPromise # "null" /\ dbPromise' = "null"

\* C14: an entry written by a Put that reported completion survives a
\* restart of the process: the restart leaves the store as it was, and the
\* first Get(k) the store serves afterwards, with no Put/Delete on k since,
\* returns the payload and capturedAt that Put wrote.
C14_SurvivesRestart ==
    [][/\ Restarts =>
            \A k \in Keys :
               hist[k].op = "put"
               => StoreGet(entries', k) = CachedData(k, hist[k].data, hist[k].ts)
       /\ \A c \in CallIds :
            (/\ GetResolves(c)
             /\ calls[c].pc = "request"
             /\ calls[c].seq
             /\ hist[calls[c].key].op = "put"
             /\ hist[calls[c].key].kept)
            => calls'[c].result = Pair(calls[c].key)]_vars

C14_Witness ==
    \E c \in Harness, k \in Keys :
       /\ calls[c].pc = "resolved" /\ calls[c].op = "get" /\ calls[c].seq
       /\ hist[k].op = "put" /\ hist[k].kept
       /\ calls[c].result = Pair(k)
       /\ opens = 1

\* the text for a count and a unit word
Phrase(n, word) == ToString(n) \o " " \o word \o " ago"

\* the elapsed time formatCacheTimestamp was last called with
UtilElapsed == util.at - util.arg

\* C15: for an elapsed time e >= 0, FormatAge counts whole units by floor
\* division: below one minute "Just now"; from N whole minutes, N in 1..59,
\* N minutes; from N whole hours, N in 1..23, N hours; from N whole days,
\* N in 1..6, N days; from 7 days a calendar date.  So 90 s is "1 minute
\* ago", 60 minutes "1 hour ago", 24 hours "1 day ago".
C15_FloorClassification ==
    (util.fn = "formatCacheTimestamp" /\ UtilElapsed >= 0) =>
       LET e == UtilElapsed
       IN /\ e < MS_PER_MINUTE => util.text = "Just now"
          /\ \A n \in 1..59 :
               (n * MS_PER_MINUTE <= e /\ e < (n + 1) * MS_PER_MINUTE)
               => util.text \in {Phrase(n, "minute"), Phrase(n, "minutes")}
          /\ \A n \in 1..23 :
               (n * MS_PER_HOUR <= e /\ e < (n + 1) * MS_PER_HOUR)
               => util.text \in {Phrase(n, "hour"), Phrase(n, "hours")}
          /\ \A n \in 1..6 :
               (n * MS_PER_DAY <= e /\ e < (n + 1) * MS_PER_DAY)
               => util.text \in {Phrase(n, "day"), Phrase(n, "days")}
          /\ e >= 7 * MS_PER_DAY => util.text = LocaleDateString(util.arg)
          /\ e = 90000 => util.text = "1 minute ago"
          /\ e = 60 * MS_PER_MINUTE => util.text = "1 hour ago"
          /\ e = 24 * MS_PER_HOUR => util.text = "1 day ago"

C15_Witness ==
    /\ util.fn = "formatCacheTimestamp"
    /\ UtilElapsed = 24 * MS_PER_HOUR
    /\ util.text = "1 day ago"

\* C16: the unit word is singular exactly when the count is 1 and plural
\* for every other count, for minutes, hours and days alike.
C16_SingularIffOne ==
    util.fn = "formatCacheTimestamp" =>
       /\ \A unit \in {"minute", "hour", "day"}, n \in 0..60 :
             /\ util.text = Phrase(n, unit) => n = 1
             /\ util.text = Phrase(n, unit \o "s") => n # 1
       /\ (MS_PER_MINUTE <= UtilElapsed /\ UtilElapsed < 7 * MS_PER_DAY)
          => \E unit \in {"minute", "hour", "day"}, n \in 1..59 :
                util.text \in {Phrase(n, unit), Phrase(n, unit \o "s")}

C16_Witness ==
    /\ util.fn = "formatCacheTimestamp"
    /\ util.text = "1 hour ago"
    /\ UtilElapsed > MS_PER_HOUR

\* C17: IsOnline returns true when there is no browser context, and
\* otherwise what navigator.onLine is at the moment of the call, not what an
\* earlier call returned.
C17_IsOnlineLive ==
    [][(util'.nth # util.nth /\ util'.fn = "useOnlineStatus")
       => /\ ~host.window => util'.flag
          /\ host.window => util'.flag = host.onLine]_vars

C17_Witness ==
    /\ util.fn = "useOnlineStatus"
    /\ host.window
    /\ ~host.onLine
    /\ ~util.flag
    /\ util.nth = 0

\* the step in which the API call of invocation r settles
FetchSettles(r) == runs[r].pc = "fetch" /\ runs'[r].pc # "fetch"

\* in this step, r calls the cache function op with the key of its access
\* code
Issues(r, op) ==
    /\ calls'[r].pc = "awaitOpen"
    /\ calls'[r].op = op
    /\ calls'[r].key = "ice_card_" \o runs[r].code
    /\ waiters' = Append(waiters, r)

\* C18 as stated: every getPublic response is followed by a Put and every
\* getPublic failure by a Get, and every verifyPin response by a Put.
C18_PutOnEveryResponse ==
    [][\A r \in Runs :
         FetchSettles(r) =>
            /\ runs[r].kind = "load" => (Issues(r, "put") \/ Issues(r, "get"))
            /\ (runs[r].kind = "pin" /\ page'.error = "") => Issues(r, "put")]_vars

\* C18, amended: the page calls Put with the key "ice_card_" + access code
\* and the response as payload on every getPublic response that needs no
\* PIN and on every verifyPin response, and Get with that key on every
\* getPublic failure; a getPublic response that asks for a PIN only opens
\* the PIN form and calls no cache function.
C18_PutOnCardGetOnFailure ==
    [][\A r \in Runs :
         FetchSettles(r) =>
            /\ runs[r].kind = "load" =>
                 \/ /\ Issues(r, "put")
                    /\ calls'[r].data = runs'[r].got
                    /\ ~calls'[r].data.requires_pin
                 \/ /\ Issues(r, "get")
                    /\ runs'[r].got = NULL
                 \/ /\ page'.requiresPin
                    /\ page'.error = ""
                    /\ calls' = calls
            /\ (runs[r].kind = "pin" /\ page'.error = "") =>
                 /\ Issues(r, "put")
                 /\ calls'[r].data = runs'[r].got]_vars

C18_Witness ==
    \E r \in Runs :
       /\ runs[r].kind = "pin"
       /\ runs[r].pc = "awaitPut"
       /\ calls[r].pc = "awaitOpen"
       /\ calls[r].op = "put"
       /\ calls[r].data = runs[r].got
       /\ opens = 1
       /\ entries = {}

\* the step in which call c is issued
Issued(c) == calls[c].pc # "awaitOpen" /\ calls'[c].pc = "awaitOpen"

\* C19: in one process the store is opened at most once, however the calls
\* interleave: a call issued while the open is in flight issues no open of
\* its own and waits with the others for that open, whose outcome all of
\* them get; a call issued after the open succeeded opens nothing and gets
\* the same handle; no request is made on any other handle.
C19_OpenedAtMostOnce ==
    [][/\ opens' <= 1
       /\ \A c \in CallIds :
            /\ (Issued(c) /\ dbPromise \in {"pending", "resolved"})
               => /\ opens' = opens
                  /\ dbPromise' = dbPromise
                  /\ calls'[c].memo
            /\ (Issued(c) /\ dbPromise = "pending") => waiters' = Append(waiters, c)
            /\ calls'[c].pc = "request" => (dbPromise' = "resolved" /\ opens' = 1)
       /\ dbPromise' = "pending"
          => \A c \in CallIds : InFlight(c)' => calls'[c].pc = "awaitOpen"
       /\ (dbPromise = "pending" /\ dbPromise' # "pending") => waiters' = waiters]_vars

C19_Witness ==
    /\ opens = 1
    /\ dbPromise = "resolved"
    /\ \A c \in Racers : calls[c].pc = "request" /\ calls[c].memo = (c = "h2")

\* C20: a failed initialization is not reused: the first call issued after
\* the open failed, in an environment that has the store, starts a new open.
C20_FailureNotReused ==
    [][\A c \in CallIds :
         (Issued(c) /\ dbPromise = "rejected" /\ hasIDB)
         => /\ dbPromise' = "pending"
            /\ opens' = opens + 1]_vars

\* C21: when two Puts on one key are in flight together, they reach the
\* store in the order they were issued: a Put completes only when no
\* Put/Delete on its key issued before it is still in flight, and it leaves
\* exactly one entry for the key, its own whole entry (payload and
\* capturedAt).  So after both completed the entry is the later Put's.
C21_OverlappingPutsLastWins ==
    [][\A c \in CallIds, k \in Keys :
         (Writes(c, k) /\ calls[c].op = "put")
         => /\ \A d \in calls[c].after : ~(InFlight(d) /\ Mutates(d))
            /\ {e \in entries' : e.key = k}
                 = {CachedData(k, calls[c].data, calls[c].ts)}]_vars

C21_Witness ==
    \E c, d \in Racers, k \in Keys :
       /\ calls[c].pc = "resolved" /\ calls[c].op = "put" /\ calls[c].after = {}
       /\ calls[d].pc = "resolved" /\ calls[d].op = "put" /\ calls[d].after = {c}
       /\ hist[k].changed
       /\ entries = {CachedData(k, hist[k].data, hist[k].ts)}

\* C22: provided the store signals, every call that was issued settles; and
\* at no time is a call pending whose request has already signalled.
C22_EveryCallSettles ==
    /\ [](\A c \in CallIds :
            calls[c].pc = "request" => \E i \in 1..Len(txq) : txq[i] = c)
    /\ \A c \in Harness : InFlight(c) ~> Settled(c)

C22_Witness ==
    \E c \in Harness :
       /\ calls[c].pc = "rejected"
       /\ calls[c].op = "get"
       /\ dbPromise = "resolved"
       /\ STORE_NAME \in stores

\* C23: the set of collections changes only in an upgrade (the open found
\* a version below DB_VERSION), which adds 'emergency' and touches nothing
\* else, or when the store undoes an upgrade whose open failed; no open
\* drops a collection or an entry that existed before it; 'emergency' is
\* the only collection; and when an open succeeds the collection exists.
C23_ProvisioningOnUpgradeOnly ==
    [][/\ stores' # stores
          => \/ /\ dbPromise = "pending"
                /\ dbVersion < DB_VERSION
                /\ dbVersion' = DB_VERSION
                /\ stores' = stores \cup {STORE_NAME}
                /\ entries' = entries
             \/ /\ upgrading
                /\ entries = {}
                /\ dbVersion' = 0
       /\ stores' \subseteq {STORE_NAME}
       /\ (dbPromise = "pending" /\ dbPromise' = "resolved")
          => /\ STORE_NAME \in stores'
             /\ stores' = stores
             /\ entries' = entries
             /\ dbVersion' = DB_VERSION]_vars

C23_Witness ==
    /\ dbPromise = "resolved"
    /\ opens = 1
    /\ stores = {STORE_NAME}
    /\ \E k \in Keys : hist[k].kept /\ StoreGet(entries, k) # NULL

\* C24: when loadCard's live fetch failed and the cache read gave no usable
\* entry (absent, the read itself failed, or the cached entry asks for a
\* PIN), the load ends with the error set to the fetch's own message, or to
\* 'Emergency card not found' when it has none, never to the store's error;
\* the load puts no card on the page, and without a pending PIN request the
\* error screen shows that message.
C24_FetchErrorShown ==
    [][\A r \in Runs :
         (/\ FallbackReturns(r)
          /\ ~(calls[r].pc = "resolved" /\ calls[r].result # NULL
               /\ ~calls[r].result.data.requires_pin))
         => /\ runs[r].err \in FetchErrors
            /\ page'.error = (IF runs[r].err = "" THEN "Emergency card not found"
                              ELSE runs[r].err)
            /\ page'.error # STORE_ERROR
            /\ page'.cardData = page.cardData
            /\ page'.isUsingCache = page.isUsingCache
            /\ page'.cacheTimestamp = page.cacheTimestamp
            /\ ~page'.requiresPin => Screen(page') = "error"]_vars

C24_Witness ==
    /\ Screen(page) = "error"
    /\ page.error = "Emergency card not found"
    /\ \E r \in Runs : calls[r].pc = "rejected" /\ calls[r].op = "get"
    /\ \E k \in Keys : hist[k].op = "put"

\* C25: while the live response's demand for a PIN stands (requiresPin is
\* set and no verifyPin has succeeded since), the page does not render the
\* full card view: it shows the PIN screen, whatever cardData holds.
C25_PinGate ==
    page.requiresPin => Screen(page) # "card"

\* C26: cacheTimestamp is non-null only while isUsingCache is true: when
\* the card shown comes from a live fetch or a PIN verification, no
\* timestamp of an earlier cache fallback is left for the banner.
C26_TimestampOnlyWithCache ==
    ~page.isUsingCache => page.cacheTimestamp = NoTimestamp

\* C27: once no loadCard / handlePinSubmit is running, a card on the page
\* with no PIN demand and no error standing is the card of the current
\* access code: a late response for an older code has not overwritten it.
C27_LateResponseIgnored ==
    (/\ \A r \in RunIds : ~Active(r)
     /\ page.mounted
     /\ page.cardData # NULL
     /\ ~page.requiresPin
     /\ page.error = "")
    => page.cardData.holder_name = HolderName(page.accessCode)

\* C28: every Put the page issues carries the response of the API call of
\* its own invocation and the key "ice_card_" + the access code that call
\* was made with, also when the page's access code has changed meanwhile;
\* and a Put issued by loadCard never carries a response that asks for a
\* PIN.
C28_CacheKeyIntegrity ==
    [][\A r \in RunIds :
         (Issued(r) /\ calls'[r].op = "put")
         => /\ calls'[r].data = runs'[r].got
            /\ calls'[r].data.holder_name = HolderName(runs[r].code)
            /\ calls'[r].key = "ice_card_" \o runs[r].code
            /\ runs[r].kind = "load" => ~calls'[r].data.requires_pin]_vars

C28_Witness ==
    \E r \in Overlapping :
       /\ runs[r].pc = "awaitPut"
       /\ calls[r].pc = "awaitOpen"
       /\ calls[r].op = "put"
       /\ runs[r].code # page.accessCode
       /\ calls[r].key = "ice_card_" \o runs[r].code
       /\ calls[r].data.holder_name = HolderName(runs[r].code)

\* the counts N for which the text is "N unit ago" or "N units ago"
CountsShown(unit) ==
    {n \in (0 - 1)..(MaxMinutes + 1) :
       util.text \in {Phrase(n, unit), Phrase(n, unit \o "s")}}

\* C30: the count FormatAge prints is never zero or out of range: 1..59
\* for minutes, 1..23 for hours, 1..6 for days; and for a timestamp in the
\* future it returns "Just now".
C30_CountInRange ==
    util.fn = "formatCacheTimestamp" =>
       /\ CountsShown("minute") \subseteq 1..59
       /\ CountsShown("hour") \subseteq 1..23
       /\ CountsShown("day") \subseteq 1..6
       /\ UtilElapsed < 0 => util.text = "Just now"

C30_Witness ==
    /\ util.fn = "formatCacheTimestamp"
    /\ UtilElapsed < 0 - MS_PER_DAY
    /\ util.text = "Just now"

\* C29: after logout, and until a login, the auth state stays cleared:
\* token, role and plan null, trialActive false, trialDaysLeft 0, and
\* pv_token, pv_role and pv_plan absent from local storage, whatever role
\* fetch was still under way.
C29_LogoutStaysCleared ==
    auth.loggedOut =>
       /\ auth.token = NoItem
       /\ auth.role = NoItem
       /\ auth.plan = NoItem
       /\ ~auth.trialActive
       /\ auth.trialDaysLeft = 0
       /\ auth.pv_token = NoItem
       /\ auth.pv_role = NoItem
       /\ auth.pv_plan = NoItem

====
